---- MODULE Spec2Model ----
(***************************************************************************)
(* A model of lib/watermark.js: the canvas pool, the aggregate resource    *)
(* loader and the chainable watermark object (a promise wrapped at every   *)
(* step).  Every `then` callback of the source is one step of the model,   *)
(* so the callbacks of different watermark objects interleave as the       *)
(* event loop lets them.                                                   *)
(*                                                                         *)
(* The source calls the factory under the name Watermark.watermark inside  *)
(* the chain methods; the model reads it as WatermarkConfig.watermark, the *)
(* function those lines sit in.                                            *)
(***************************************************************************)
EXTENDS Integers, Sequences, FiniteSets, TLC

\* ------------------------------------------------------------------ bounds
MaxPipes == 3      \* watermark objects created in one run
MaxRoots == 1      \* of them, the ones made by watermark(resources, options)
MaxLen == 2        \* longest resource list handed to watermark()/load()
MaxCanvas == 4     \* canvas elements created in one run
PoolPipes == 4     \* watermark objects in one run of the pool scenario
PoolRoots == 2     \* of them, the ones made by watermark(resources, options)

\* ------------------------------------------------------------- sequences
Range(s) == {s[i] : i \in DOMAIN s}

Reverse(s) == [i \in 1..Len(s) |-> s[Len(s) + 1 - i]]

Max(a, b) == IF a >= b THEN a ELSE b

\* ------------------------------------------------- resources and images
\* An Image object: its src, the layers painted in its bitmap, its size.
Img(src, px, w, h) == [src |-> src, px |-> px, w |-> w, h |-> h]

NoImg == Img("", <<>>, 0, 0)

\* The resources a caller can hand in.  `shape` is what typeof/instanceof
\* see; `img` is the image the resource decodes to.
Url(name, w, h) == [shape |-> "string", img |-> Img(name, <<name>>, w, h)]

File(name, w, h) == [shape |-> "File", img |-> Img(name, <<name>>, w, h)]

Decoded(name, w, h) == [shape |-> "Image", img |-> Img(name, <<name>>, w, h)]

Unrecognized == [shape |-> "Object", img |-> NoImg]

A == Url("a.jpg", 3, 2)

B == Url("b.jpg", 1, 1)

F == File("f.png", 2, 2)

I == Decoded("logo", 1, 2)

J == Decoded("photo", 3, 2)

ResourceLists ==
    {s \in {<<I>>, <<A, B>>, <<F, I>>, <<Unrecognized, A>>, <<B, I, A>>,
            <<A, F, B, I>>} : Len(s) <= MaxLen}

\* ------------------------------------------------------- promise values
\* What a promise settles with.  t is the kind of value, list its
\* content (the image list, or the one image / data url / blob), err the
\* rejection reason.
Val(t, list, err) == [t |-> t, list |-> list, err |-> err]

NoVal == Val("none", <<>>, "")

Images(list) == Val("images", list, "")

Failure(err) == Val("error", <<>>, err)

Pending == [status |-> "pending", value |-> NoVal]

Fulfilled(v) == [status |-> "fulfilled", value |-> v]

Rejected(err) == [status |-> "rejected", value |-> Failure(err)]

\* ------------------------------------------------------------- options
\* An options object is a function from the keys it has to their values.
OptionObjects ==
    {<<>>, [init |-> "crossOrigin", pool |-> "own"]}

extend(first, second) ==
    [k \in DOMAIN first \cup DOMAIN second |->
        IF k \in DOMAIN second THEN second[k] ELSE first[k]]

clone(obj) == extend(<<>>, obj)

defaults == [init |-> "noop"]

mergeOptions(options) == extend(clone(defaults), options)

\* ---------------------------------------------------------- CanvasPool
\* A canvas element as document.createElement('canvas') makes it.
NewCanvas == [w |-> 300, h |-> 150, px |-> <<>>]

\* A pop that reads the last canvas and leaves it in the pool.
CanvasPool_popKeep(canvases, table) ==
    LET grown == IF Len(canvases) = 0
                 THEN [pool |-> Append(canvases, Len(table) + 1),
                       table |-> Append(table, NewCanvas)]
                 ELSE [pool |-> canvases, table |-> table]
    IN  [c |-> grown.pool[Len(grown.pool)],
         pool |-> grown.pool,
         table |-> grown.table]

\* pop(): push a new canvas when the pool is empty, then take the last one.
\* The result is the canvas handed out, the pool and the canvas table.
CanvasPool_pop(canvases, table) ==
    LET grown == IF Len(canvases) = 0
                 THEN [pool |-> Append(canvases, Len(table) + 1),
                       table |-> Append(table, NewCanvas)]
                 ELSE [pool |-> canvases, table |-> table]
    IN  [c |-> grown.pool[Len(grown.pool)],
         pool |-> SubSeq(grown.pool, 1, Len(grown.pool) - 1),
         table |-> grown.table]

\* get length(): the number of canvases in the array.
CanvasPool_length(canvases) == Len(canvases)

\* A release that pushes the canvas twice.
CanvasPool_releaseTwice(c, canvases, table) ==
    [pool |-> Append(Append(canvases, c), c),
     table |-> [table EXCEPT ![c].px = <<>>]]

\* A release that clears the canvas by resetting its size.
CanvasPool_releaseResize(c, canvases, table) ==
    [pool |-> Append(canvases, c),
     table |-> [table EXCEPT ![c] = [w |-> 0, h |-> 0, px |-> <<>>]]]

\* A release that clears the canvas and forgets to push it.
CanvasPool_releaseDrop(c, canvases, table) ==
    [pool |-> canvases,
     table |-> [table EXCEPT ![c].px = <<>>]]

\* release(canvas): clearRect over the whole canvas, then push it.
CanvasPool_release(c, canvases, table) ==
    [pool |-> Append(canvases, c),
     table |-> [table EXCEPT ![c].px = <<>>]]

\* A clear whose splice starts after the first element.
CanvasPool_clearTail(canvases) ==
    IF Len(canvases) = 0 THEN canvases ELSE SubSeq(canvases, 1, 1)

\* clear(): splice every element out.
CanvasPool_clear(canvases) == SubSeq(canvases, 1, 0)

\* ---------------------------------------------------------- rasterizer
drawImage(img, c, table) ==
    [table EXCEPT ![c] = [w |-> img.w, h |-> img.h, px |-> img.px]]

imageToCanvas(img, canvases, table) ==
    LET got == CanvasPool_pop(canvases, table)
    IN  [c |-> got.c, pool |-> got.pool,
         table |-> drawImage(img, got.c, got.table)]

\* A rasterizer that hands the canvases over last image first.
RECURSIVE mapToCanvasRev(_, _, _)
mapToCanvasRev(images, canvases, table) ==
    IF images = <<>>
    THEN [out |-> <<>>, pool |-> canvases, table |-> table]
    ELSE LET one == imageToCanvas(Head(images), canvases, table)
             rest == mapToCanvasRev(Tail(images), one.pool, one.table)
         IN  [out |-> rest.out \o <<one.c>>, pool |-> rest.pool,
              table |-> rest.table]

RECURSIVE mapToCanvas(_, _, _)
mapToCanvas(images, canvases, table) ==
    IF images = <<>>
    THEN [out |-> <<>>, pool |-> canvases, table |-> table]
    ELSE LET one == imageToCanvas(Head(images), canvases, table)
             rest == mapToCanvas(Tail(images), one.pool, one.table)
         IN  [out |-> <<one.c>> \o rest.out, pool |-> rest.pool,
              table |-> rest.table]

\* The canvases pop has to create to rasterize n images.
Created(n, canvases) == Max(0, n - Len(canvases))

\* ------------------------------------------------------------- loaders
getLoader(resource) ==
    IF resource.shape = "string" THEN "loadUrl"
    ELSE IF resource.shape = "Image" THEN "identity"
    ELSE "loadFile"

\* One element of the promises array of load(): the resource, the state
\* of its promise, the image it resolved with, the initializer that was
\* run on its Image object ("" when none was), what that initializer had
\* set on the Image when its src was assigned and the fetch began, and its
\* place in the order in which the loads of the array completed (0: it
\* did not wait).
Slot(res, st, img, init, fetch, nth) ==
    [res |-> res, st |-> st, img |-> img, init |-> init, fetch |-> fetch,
     nth |-> nth]

\* A loadUrl that assigns img.src first and runs init afterwards.
loadUrlLate(resource, init) ==
    LET ran == IF init # "" THEN init ELSE ""
    IN  Slot(resource, "loading", NoImg, ran, "", 0)

\* loadUrl: run init on the new Image when it is a function, then assign
\* img.src in the executor and wait for onload.  No onerror handler is
\* installed.
loadUrl(resource, init) ==
    LET ran == IF init # "" THEN init ELSE ""
    IN  Slot(resource, "loading", NoImg, ran, ran, 0)

\* loadFile: FileReader.readAsDataURL throws inside the promise executor
\* when the argument is not a Blob, which rejects the promise.
loadFile(resource) ==
    IF resource.shape \in {"File", "Blob"}
    THEN Slot(resource, "loading", NoImg, "", "", 0)
    ELSE Slot(resource, "rejected", NoImg, "", "", 0)

identity(resource) == Slot(resource, "loaded", resource.img, "", "", 0)

\* A dispatch that runs the initializer on the Image of every loader.
StartInitAll(resource, init) ==
    LET slot == IF getLoader(resource) = "loadUrl" THEN loadUrl(resource, init)
                ELSE IF getLoader(resource) = "identity" THEN identity(resource)
                ELSE loadFile(resource)
    IN  [slot EXCEPT !.init = init]

Start(resource, init) ==
    IF getLoader(resource) = "loadUrl" THEN loadUrl(resource, init)
    ELSE IF getLoader(resource) = "identity" THEN identity(resource)
    ELSE loadFile(resource)

\* A load that starts the first resource only, the others waiting for it.
loadSequential(resources, init) ==
    [i \in 1..(IF Len(resources) = 0 THEN 0 ELSE 1) |->
        Start(resources[i], init)]

\* A load that puts each promise in front of the earlier ones.
loadUnshift(resources, init) ==
    Reverse([i \in 1..Len(resources) |-> Start(resources[i], init)])

\* load(): the promises, pushed in the order of the resources.
load(resources, init) ==
    [i \in 1..Len(resources) |-> Start(resources[i], init)]

\* Promise.all over the slots.
PromiseAll(ss) ==
    IF \E i \in DOMAIN ss : ss[i].st = "rejected" THEN Rejected("TypeError")
    ELSE IF \A i \in DOMAIN ss : ss[i].st = "loaded"
         THEN Fulfilled(Images([i \in 1..Len(ss) |-> ss[i].img]))
         ELSE Pending

\* ------------------------------------------------------ draw strategies
\* atPosImage and atPosText are the two strategies of the library;
\* newCanvas stands for a caller's own function, one that composes on a
\* canvas of its own.
DrawStrategies == {"atPosImage", "atPosText", "newCanvas"}

RECURSIVE Layers(_, _)
Layers(sources, table) ==
    IF sources = <<>> THEN <<>>
    ELSE table[Head(sources)].px \o Layers(Tail(sources), table)

\* atPosImage(...)(target, watermark): draws the watermark on the target
\* and returns the target; with fewer than two canvases the watermark is
\* undefined and context.drawImage throws.
atPosImage(sources, table) ==
    IF Len(sources) < 2
    THEN [ok |-> FALSE, canvas |-> 0, table |-> table]
    ELSE [ok |-> TRUE, canvas |-> sources[1],
          table |-> [table EXCEPT ![sources[1]].px = @ \o table[sources[2]].px]]

\* atPosText(...)(target): writes the text on the target, returns it.
atPosText(sources, table) ==
    IF Len(sources) < 1
    THEN [ok |-> FALSE, canvas |-> 0, table |-> table]
    ELSE [ok |-> TRUE, canvas |-> sources[1],
          table |-> [table EXCEPT ![sources[1]].px = @ \o <<"text">>]]

\* result(draw, sources): draw.apply(null, sources).
result(draw, sources, table) ==
    IF draw = "atPosImage" THEN atPosImage(sources, table)
    ELSE IF draw = "atPosText" THEN atPosText(sources, table)
    ELSE IF draw = "newCanvas"
    THEN [ok |-> TRUE, canvas |-> Len(table) + 1,
          table |-> Append(table, [w |-> 300, h |-> 150,
                                   px |-> Layers(sources, table)])]
    ELSE [ok |-> FALSE, canvas |-> 0, table |-> table]

\* --------------------------------------------------------- serialization
mapToDataUrl(c, table) ==
    Val("dataUrl", <<Img("data:", table[c].px, table[c].w, table[c].h)>>, "")

mapToBlob(url) == Val("blob", url.list, "")

createImage(url) == Val("image", url.list, "")

\* sources.forEach(pool.release)
RECURSIVE forEachRelease(_, _, _)
forEachRelease(sources, canvases, table) ==
    IF sources = <<>> THEN [pool |-> canvases, table |-> table]
    ELSE LET one == CanvasPool_release(Head(sources), canvases, table)
         IN  forEachRelease(Tail(sources), one.pool, one.table)

\* A release that reads the data url after the sources are released.
releaseThenRead(c, sources, canvases, table) ==
    LET after == forEachRelease(sources, canvases, table)
    IN  [url |-> mapToDataUrl(c, after.table), pool |-> after.pool,
         table |-> after.table]

\* A release that gives back the sources other than the composed canvas.
releaseOthers(c, sources, canvases, table) ==
    LET after == forEachRelease(SelectSeq(sources, LAMBDA x : x # c),
                                canvases, table)
    IN  [url |-> mapToDataUrl(c, table), pool |-> after.pool,
         table |-> after.table]

\* release(result, pool): the data url of the composed canvas, read
\* before the sources are released.
release(c, sources, canvases, table) ==
    LET after == forEachRelease(sources, canvases, table)
    IN  [url |-> mapToDataUrl(c, table), pool |-> after.pool,
         table |-> after.table]

\* The resolved value of a pipeline, used as the first resource of
\* load([resource].concat(resources)).
AsResource(v) ==
    IF v.t = "dataUrl" THEN [shape |-> "string", img |-> v.list[1]]
    ELSE IF v.t = "image" THEN [shape |-> "Image", img |-> v.list[1]]
    ELSE IF v.t = "blob" THEN [shape |-> "Blob", img |-> v.list[1]]
    ELSE [shape |-> "Array", img |-> NoImg]

\* ------------------------------------------------------------------ state
VARIABLES
    pipes,     \* the watermark objects made so far: what each closes over
    promise,   \* the promise of each watermark object
    slots,     \* the promises array of each aggregate load
    chain,     \* where the then-chain of each derived object stands
    pool,      \* the canvases of each CanvasPool: shared, and the caller's
    canvas     \* every canvas element created: size and painted layers

vars == <<pipes, promise, slots, chain, pool, canvas>>

Pipe(kind, parent, resources, opts, draw, init) ==
    [kind |-> kind, parent |-> parent, resources |-> resources,
     opts |-> opts, draw |-> draw, init |-> init]

\* pc: the callback that runs next.  sources: the canvases checked out and
\* not released.  canvas: the composed canvas.  url: the data url handed
\* to mapToBlob/createImage.  k, alone: the length of the pool before the
\* canvases were popped, and whether the pool was left alone by everybody
\* else since.  draws: the calls of the draw strategy.  cleared: the pool
\* was cleared while the canvases were checked out.
Chain(pc, sources, c, url, k, alone, draws, cleared) ==
    [pc |-> pc, sources |-> sources, canvas |-> c, url |-> url, k |-> k,
     alone |-> alone, draws |-> draws, cleared |-> cleared]

NoChain(pc) == Chain(pc, <<>>, 0, NoVal, 0, TRUE, 0, FALSE)

Pipes == 1..Len(pipes)

Holding(ch) == ch.pc \in {"then2", "then3"}

\* Another object touched the pool: the ones holding canvases are no
\* longer alone with it.
Touched(ch, q) ==
    [r \in DOMAIN ch |->
        IF r # q /\ Holding(ch[r]) THEN [ch[r] EXCEPT !.alone = FALSE]
        ELSE ch[r]]

\* The pool was cleared under the objects holding canvases.
ClearedUnder(ch) ==
    [r \in DOMAIN ch |->
        IF Holding(ch[r]) THEN [ch[r] EXCEPT !.cleared = TRUE] ELSE ch[r]]

Init ==
    /\ pipes = <<>>
    /\ promise = <<>>
    /\ slots = <<>>
    /\ chain = <<>>
    /\ pool = [shared |-> <<>>, own |-> <<>>]
    /\ canvas = <<>>

\* ------------------------------------------------- WatermarkConfig.watermark
\* watermark(resources, options): no promise given, so load starts here.
Watermark(resources, options) ==
    /\ LET opts == mergeOptions(options)
           started == load(resources, opts.init)
       IN  /\ pipes' = Append(pipes, Pipe("watermark", 0, resources, opts, "", ""))
           /\ promise' = Append(promise, PromiseAll(started))
           /\ slots' = Append(slots, started)
           /\ chain' = Append(chain, NoChain("loading"))
    /\ UNCHANGED <<pool, canvas>>

Completed(ss) == Cardinality({i \in DOMAIN ss : ss[i].nth > 0})

\* img.onload of slot i: resolve(img); Promise.all settles with the last.
LoadComplete(p, i) ==
    /\ slots[p][i].st = "loading"
    /\ LET ss == [slots[p] EXCEPT ![i] =
                    Slot(@.res, "loaded", @.res.img, @.init, @.fetch,
                         Completed(slots[p]) + 1)]
       IN  /\ slots' = [slots EXCEPT ![p] = ss]
           /\ promise' = [promise EXCEPT ![p] =
                            IF @.status = "pending" THEN PromiseAll(ss) ELSE @]
    /\ UNCHANGED <<pipes, chain, pool, canvas>>

\* The load of slot i fails (network error, unreadable file, bad image):
\* nothing listens, so the promise of the slot never settles.
LoadError(p, i) ==
    /\ slots[p][i].st = "loading"
    /\ slots' = [slots EXCEPT ![p][i].st = "failed"]
    /\ UNCHANGED <<pipes, promise, chain, pool, canvas>>

\* --------------------------------------------------------- chain methods
\* A factory that ignores the promise it is given and loads the resources
\* of the new object again.
DeriveReload(kind, p, resources, draw, init) ==
    LET opts == mergeOptions(pipes[p].opts)
        started == load(resources, opts.init)
    IN  /\ pipes' = Append(pipes, Pipe(kind, p, resources, opts, draw, init))
        /\ promise' = Append(promise, Pending)
        /\ slots' = Append(slots, started)
        /\ chain' = Append(chain, NoChain("then1"))
        /\ UNCHANGED <<pool, canvas>>

\* Every method builds its promise from this.then(...) and returns
\* watermark(resources, opts, promise): a new object, no load started.
Derive(kind, p, resources, draw, init) ==
    /\ pipes' = Append(pipes, Pipe(kind, p, resources,
                                   mergeOptions(pipes[p].opts), draw, init))
    /\ promise' = Append(promise, Pending)
    /\ slots' = Append(slots, <<>>)
    /\ chain' = Append(chain, NoChain("then1"))
    /\ UNCHANGED <<pool, canvas>>

DataUrl(p, draw) == Derive("dataUrl", p, pipes[p].resources, draw, "")

\* load(resources, init): the parameter hides the list of the object,
\* so the new object is built with the additional resources.
Load(p, resources, init) == Derive("load", p, resources, "", init)

Render(p) == Derive("render", p, pipes[p].resources, "", "")

\* blob and image chain one more then on this.dataUrl(draw); the object
\* dataUrl returns inside them is not handed to the caller, so the model
\* keeps one object whose chain has a fourth callback.
Blob(p, draw) == Derive("blob", p, pipes[p].resources, draw, "")

Image(p, draw) == Derive("image", p, pipes[p].resources, draw, "")

\* ------------------------------------------------------- then callbacks
\* The pool dataUrl works on.
PoolOf(opts) == "shared"

Drawing(q) == pipes[q].kind \in {"dataUrl", "blob", "image"}

Loading(q) == pipes[q].kind \in {"load", "render"}

Parent(q) == promise[pipes[q].parent]

\* A chain that catches the failure and throws an error of its own.
PropagateWrapped(q) ==
    /\ chain[q].pc = "then1"
    /\ Parent(q).status = "rejected"
    /\ promise' = [promise EXCEPT ![q] = Rejected("Error")]
    /\ chain' = [chain EXCEPT ![q].pc = "done"]
    /\ UNCHANGED <<pipes, slots, pool, canvas>>

\* A rejected promise skips the callbacks of every then after it.
Propagate(q) ==
    /\ chain[q].pc = "then1"
    /\ Parent(q).status = "rejected"
    /\ promise' = [promise EXCEPT ![q] = Parent(q)]
    /\ chain' = [chain EXCEPT ![q].pc = "done"]
    /\ UNCHANGED <<pipes, slots, pool, canvas>>

\* images => mapToCanvas(images, shared)
Rasterize(q) ==
    /\ Drawing(q)
    /\ chain[q].pc = "then1"
    /\ Parent(q).status = "fulfilled"
    /\ LET v == Parent(q).value
           name == PoolOf(pipes[q].opts)
       IN  IF v.t # "images"
           THEN \* images.map is not a function
                /\ promise' = [promise EXCEPT ![q] = Rejected("TypeError")]
                /\ chain' = [chain EXCEPT ![q].pc = "done"]
                /\ UNCHANGED <<pool, canvas>>
           ELSE /\ Len(canvas) + Created(Len(v.list), pool[name]) <= MaxCanvas
                /\ LET got == mapToCanvas(v.list, pool[name], canvas)
                   IN  /\ pool' = [pool EXCEPT ![name] = got.pool]
                       /\ canvas' = got.table
                       /\ chain' = [Touched(chain, q) EXCEPT ![q] =
                                      Chain("then2", got.out, 0, NoVal,
                                            Len(pool[name]), TRUE, 0, FALSE)]
                /\ UNCHANGED promise
    /\ UNCHANGED <<pipes, slots>>

\* canvases => result(draw, canvases)
Draw(q) ==
    /\ chain[q].pc = "then2"
    /\ LET r == result(pipes[q].draw, chain[q].sources, canvas)
       IN  /\ Len(r.table) <= MaxCanvas
           /\ canvas' = r.table
           /\ IF r.ok
              THEN /\ chain' = [chain EXCEPT ![q].pc = "then3",
                                             ![q].canvas = r.canvas,
                                             ![q].draws = @ + 1]
                   /\ UNCHANGED promise
              ELSE /\ chain' = [chain EXCEPT ![q].pc = "done",
                                             ![q].draws = @ + 1]
                   /\ promise' = [promise EXCEPT ![q] = Rejected("DrawError")]
    /\ UNCHANGED <<pipes, slots, pool>>

\* result => release(result, shared); toDataURL throws on a tainted canvas.
Release(q, tainted) ==
    /\ chain[q].pc = "then3"
    /\ LET name == PoolOf(pipes[q].opts)
           r == release(chain[q].canvas, chain[q].sources, pool[name], canvas)
       IN  IF tainted
           THEN /\ promise' = [promise EXCEPT ![q] = Rejected("SecurityError")]
                /\ chain' = [chain EXCEPT ![q].pc = "done"]
                /\ UNCHANGED <<pool, canvas>>
           ELSE /\ pool' = [pool EXCEPT ![name] = r.pool]
                /\ canvas' = r.table
                /\ IF pipes[q].kind = "dataUrl"
                   THEN /\ promise' = [promise EXCEPT ![q] = Fulfilled(r.url)]
                        /\ chain' = [Touched(chain, q) EXCEPT
                                       ![q].pc = "done", ![q].sources = <<>>]
                   ELSE /\ chain' = [Touched(chain, q) EXCEPT
                                       ![q].pc = "then4", ![q].sources = <<>>,
                                       ![q].url = r.url]
                        /\ UNCHANGED promise
    /\ UNCHANGED <<pipes, slots>>

\* this.dataUrl(draw).then(mapToBlob) and .then(createImage)
Convert(q) ==
    /\ chain[q].pc = "then4"
    /\ promise' = [promise EXCEPT ![q] =
                     Fulfilled(IF pipes[q].kind = "blob"
                               THEN mapToBlob(chain[q].url)
                               ELSE createImage(chain[q].url))]
    /\ chain' = [chain EXCEPT ![q].pc = "done"]
    /\ UNCHANGED <<pipes, slots, pool, canvas>>

\* resource => load([resource].concat(resources), init), and for render
\* resource => load([resource])
StartLoad(q) ==
    /\ Loading(q)
    /\ chain[q].pc = "then1"
    /\ Parent(q).status = "fulfilled"
    /\ LET more == IF pipes[q].kind = "load" THEN pipes[q].resources ELSE <<>>
           started == load(<<AsResource(Parent(q).value)>> \o more,
                           pipes[q].init)
       IN  /\ slots' = [slots EXCEPT ![q] = started]
           /\ promise' = [promise EXCEPT ![q] = PromiseAll(started)]
    /\ chain' = [chain EXCEPT ![q].pc = "loading"]
    /\ UNCHANGED <<pipes, pool, canvas>>

\* A destroy that also wipes the canvases that are checked out.
DestroyWipe ==
    /\ pool' = [pool EXCEPT !.shared = CanvasPool_clear(@)]
    /\ chain' = ClearedUnder(Touched(chain, 0))
    /\ canvas' = [c \in DOMAIN canvas |->
                    IF \E q \in Pipes : /\ Holding(chain[q])
                                        /\ c \in Range(chain[q].sources)
                    THEN [canvas[c] EXCEPT !.px = <<>>]
                    ELSE canvas[c]]
    /\ UNCHANGED <<pipes, promise, slots>>

\* WatermarkConfig.watermark.destroy
Destroy ==
    /\ pool' = [pool EXCEPT !.shared = CanvasPool_clear(@)]
    /\ chain' = ClearedUnder(Touched(chain, 0))
    /\ UNCHANGED <<pipes, promise, slots, canvas>>

Inits == {"", "crossOrigin"}

Roots == {p \in Pipes : pipes[p].kind = "watermark"}

\* The run makes at most `most` objects, `roots` of them with watermark().
Room(most) == Len(pipes) < most

RootRoom(most, roots) == Room(most) /\ Cardinality(Roots) < roots

Next ==
    \/ /\ RootRoom(MaxPipes, MaxRoots)
       /\ \E resources \in ResourceLists, options \in OptionObjects :
             Watermark(resources, options)
    \/ \E p \in Pipes, i \in 1..(MaxLen + 1) :
          i \in DOMAIN slots[p] /\ LoadComplete(p, i)
    \/ \E p \in Pipes, i \in 1..(MaxLen + 1) :
          i \in DOMAIN slots[p] /\ LoadError(p, i)
    \/ Room(MaxPipes) /\ \E p \in Pipes, draw \in DrawStrategies : DataUrl(p, draw)
    \/ /\ Room(MaxPipes)
       /\ \E p \in Pipes, resources \in ResourceLists, init \in Inits :
             Load(p, resources, init)
    \/ Room(MaxPipes) /\ \E p \in Pipes : Render(p)
    \/ Room(MaxPipes) /\ \E p \in Pipes, draw \in DrawStrategies : Blob(p, draw)
    \/ Room(MaxPipes) /\ \E p \in Pipes, draw \in DrawStrategies : Image(p, draw)
    \/ \E q \in Pipes : Propagate(q)
    \/ \E q \in Pipes : Rasterize(q)
    \/ \E q \in Pipes : Draw(q)
    \/ \E q \in Pipes, tainted \in BOOLEAN : Release(q, tainted)
    \/ \E q \in Pipes : Convert(q)
    \/ \E q \in Pipes : StartLoad(q)
    \/ Destroy

Spec == Init /\ [][Next]_vars

\* The pool scenario: more objects, made from decoded images only (their
\* loads resolve at once), each deriving data urls; so that pipelines over
\* lists of different lengths share the pool.
DecodedLists == {s \in {<<I>>, <<J, I>>, <<I, J, I>>} : Len(s) <= MaxLen}

PoolNext ==
    \/ /\ RootRoom(PoolPipes, PoolRoots)
       /\ \E resources \in DecodedLists : Watermark(resources, <<>>)
    \/ Room(PoolPipes) /\ \E p \in Pipes, draw \in DrawStrategies : DataUrl(p, draw)
    \/ \E q \in Pipes : Propagate(q)
    \/ \E q \in Pipes : Rasterize(q)
    \/ \E q \in Pipes : Draw(q)
    \/ \E q \in Pipes, tainted \in BOOLEAN : Release(q, tainted)
    \/ Destroy

PoolSpec == Init /\ [][PoolNext]_vars

\* ======================================================== properties
\* The list an aggregate load was asked for.
Requested(p) ==
    IF pipes[p].kind = "watermark" THEN pipes[p].resources
    ELSE IF pipes[p].kind = "load"
    THEN <<AsResource(Parent(p).value)>> \o pipes[p].resources
    ELSE <<AsResource(Parent(p).value)>>

Aggregate(p) == pipes[p].kind \in {"watermark", "load", "render"}

\* C1: whatever the order in which the loads complete, an aggregate load
\* that resolves does so with one image per resource of its list, the
\* i-th being the image of the i-th resource.
C1_LoadKeepsOrder ==
    \A p \in Pipes :
        Aggregate(p) /\ promise[p].status = "fulfilled" =>
            /\ promise[p].value.t = "images"
            /\ Len(promise[p].value.list) = Len(Requested(p))
            /\ \A i \in DOMAIN Requested(p) :
                  promise[p].value.list[i] = Requested(p)[i].img

\* A load resolved although its second resource completed before its first.
C1_Witness ==
    \E p \in Pipes :
        /\ Aggregate(p) /\ promise[p].status = "fulfilled"
        /\ \E i, j \in DOMAIN slots[p] :
              i < j /\ slots[p][j].nth > 0 /\ slots[p][i].nth > slots[p][j].nth

\* C2: an aggregate load one of whose loads has failed delivers no image
\* list, and once every load of its list has ended it has settled as
\* failed.
C2_FailedLoadRejects ==
    \A p \in Pipes :
        (Aggregate(p) /\ \E i \in DOMAIN slots[p] : slots[p][i].st = "failed")
        => /\ promise[p].status # "fulfilled"
           /\ (\A i \in DOMAIN slots[p] : slots[p][i].st # "loading")
                 => promise[p].status = "rejected"

\* The step in which object q releases its result without failing.
Released(q) ==
    /\ chain[q].pc = "then3"
    /\ chain'[q].pc \in {"then4", "done"}
    /\ promise'[q].status # "rejected"

\* C3: when dataUrl releases its result, every source canvas it checked
\* out is in the shared pool; if nothing else touched the pool meanwhile
\* the pool then holds max(k, n) canvases, k being its length before.
C3_SourcesReturned ==
    [][\A q \in Pipes :
          Released(q) =>
              /\ Range(chain[q].sources) \subseteq Range(pool'.shared)
              /\ chain[q].alone =>
                    Len(pool'.shared) = Max(chain[q].k, Len(chain[q].sources))
      ]_vars

\* A dataUrl over one image has completed with the pool left alone, and
\* the pool held two canvases when it started, as it does now.
C3_Witness ==
    \E q \in Pipes :
        /\ pipes[q].kind = "dataUrl" /\ promise[q].status = "fulfilled"
        /\ Len(pipes[q].resources) = 1
        /\ chain[q].alone /\ chain[q].k = 2
        /\ Len(pool.shared) = 2

\* C4: a dataUrl that has ended, in whichever way, holds no canvas that
\* it checked out and did not release.
C4_NoLeak ==
    \A q \in Pipes :
        promise[q].status # "pending" => chain[q].sources = <<>>

\* C5: no canvas is checked out twice at the same time, by two objects or
\* by one.
C5_ExclusiveCheckout ==
    \A q, r \in Pipes :
        \A i \in DOMAIN chain[q].sources, j \in DOMAIN chain[r].sources :
            (q # r \/ i # j) => chain[q].sources[i] # chain[r].sources[j]

\* Two objects hold canvases at once, one before its draw and one after,
\* and one of them popped canvases the other had released or left.
C5_Witness ==
    \E q, r \in Pipes :
        /\ q # r
        /\ chain[q].pc = "then2" /\ chain[r].pc = "then3"
        /\ chain[q].sources # <<>> /\ chain[r].sources # <<>>

\* C6 as stated: a composed canvas that is one of the sources is not in
\* the pool when the operation has released its result.
C6_ComposedNotReleased ==
    [][\A q \in Pipes :
          Released(q) /\ chain[q].canvas \in Range(chain[q].sources) =>
              chain[q].canvas \notin Range(pool'.shared)
      ]_vars

\* C6 as amended: a composed canvas that is one of the sources is
\* released with them: it is cleared and in the pool, after its data url
\* was taken.
C6_ComposedSourceReleased ==
    [][\A q \in Pipes :
          Released(q) /\ chain[q].canvas \in Range(chain[q].sources) =>
              /\ chain[q].canvas \in Range(pool'.shared)
              /\ canvas'[chain[q].canvas].px = <<>>
      ]_vars

\* A dataUrl whose strategy returned its first source has completed, and
\* that canvas is available in the pool.
C6_Witness ==
    \E q \in Pipes :
        /\ Drawing(q) /\ chain[q].pc = "done"
        /\ promise[q].status = "fulfilled"
        /\ pipes[q].draw \in {"atPosImage", "atPosText"}
        /\ chain[q].canvas \in Range(pool.shared)

\* C7: dataUrl, blob and image on a failed object fail with its failure,
\* without popping a canvas, calling the draw strategy or touching the
\* pools.
C7_FailurePropagates ==
    [][\A q \in Pipes :
          (/\ Drawing(q) /\ Parent(q).status = "rejected"
           /\ chain'[q].pc # chain[q].pc)
          => /\ promise'[q] = Parent(q)
             /\ pool' = pool /\ canvas' = canvas
             /\ chain'[q].draws = 0 /\ chain'[q].sources = <<>>
      ]_vars

\* A blob and an image asked of a failed object have both failed.
C7_Witness ==
    \E q, r \in Pipes :
        /\ pipes[q].kind = "blob" /\ pipes[r].kind = "image"
        /\ Parent(q).status = "rejected" /\ Parent(r).status = "rejected"
        /\ promise[q].status = "rejected" /\ promise[r].status = "rejected"

Valid(resources) ==
    \A i \in DOMAIN resources :
        resources[i].shape \in {"string", "File", "Image"}

\* C8: load(M) on an object resolved to the image list L does not fail,
\* and what it resolves to is L followed by the images of M.
C8_LoadAppends ==
    \A q \in Pipes :
        (/\ pipes[q].kind = "load" /\ Valid(pipes[q].resources)
         /\ Parent(q).status = "fulfilled" /\ Parent(q).value.t = "images")
        => /\ promise[q].status # "rejected"
           /\ promise[q].status = "fulfilled" =>
                 promise[q].value.list =
                    Parent(q).value.list \o
                    [i \in DOMAIN pipes[q].resources |->
                        pipes[q].resources[i].img]

\* C9: every derived object carries the resource list and the options of
\* the object it was derived from.
C9_CarriedForward ==
    \A q \in Pipes :
        pipes[q].parent # 0 =>
            /\ pipes[q].resources = pipes[pipes[q].parent].resources
            /\ pipes[q].opts = pipes[pipes[q].parent].opts

\* C10: the callbacks of a dataUrl whose options give a pool leave the
\* shared pool as it is.
C10_OwnPoolUsed ==
    [][\A q \in Pipes :
          (/\ Drawing(q) /\ "pool" \in DOMAIN pipes[q].opts
           /\ chain'[q].pc # chain[q].pc)
          => pool'.shared = pool.shared
      ]_vars

\* An aggregate load whose loaders have been called.
Started(p) == Aggregate(p) /\ chain[p].pc = "loading"

\* The initializer the load of p was called with ("" when undefined).
GivenInit(p) ==
    IF pipes[p].kind = "watermark" THEN pipes[p].opts.init ELSE pipes[p].init

Recognized == {"string", "File", "Blob", "Image"}

\* C11: a resource that is no string, file or image goes to none of the
\* three loaders, and the load it is part of fails as an unsupported
\* resource type.
C11_UnrecognizedRejected ==
    \A p \in Pipes :
        Started(p) =>
            \A i \in DOMAIN Requested(p) :
                Requested(p)[i].shape \notin Recognized =>
                    /\ getLoader(Requested(p)[i])
                          \notin {"loadUrl", "identity", "loadFile"}
                    /\ promise[p] = Rejected("UnsupportedResourceType")

\* C12: a started load has run its initializer once on the Image of every
\* string resource of its list, and on no Image of a file or an image
\* resource.
C12_InitOnlyForUrls ==
    \A p \in Pipes :
        Started(p) =>
            /\ Len(slots[p]) = Len(Requested(p))
            /\ \A i \in DOMAIN slots[p] :
                  slots[p][i].init =
                     IF Requested(p)[i].shape = "string" THEN GivenInit(p)
                     ELSE ""

\* A load over a mixed list: the initializer ran for a url and not for
\* the file or image next to it in the list.
C12_Witness ==
    \E p \in Pipes :
        /\ Started(p)
        /\ \E i, j \in DOMAIN slots[p] :
              /\ slots[p][i].res.shape = "string"
              /\ slots[p][i].init = "crossOrigin"
              /\ slots[p][j].res.shape \in {"File", "Image"}
              /\ slots[p][j].init = ""

\* The canvases nothing refers to any more: in no pool, checked out by no
\* object, and not a canvas a caller's strategy made.
Dropped ==
    {c \in 1..Len(canvas) :
        /\ c \notin Range(pool.shared) \cup Range(pool.own)
        /\ \A q \in Pipes :
              /\ c \notin Range(chain[q].sources)
              /\ ~(chain[q].canvas = c /\ pipes[q].draw = "newCanvas")}

\* The step of destroy(): no callback runs, no object is made.
ClearStep ==
    /\ pipes' = pipes /\ slots' = slots /\ promise' = promise
    /\ \A q \in Pipes : chain'[q].pc = chain[q].pc

\* The step in which object q pops its canvases.
Popped(q) == chain[q].pc = "then1" /\ chain'[q].pc = "then2"

\* C13: clear leaves the pool empty; the canvases popped from the empty
\* pool are newly created, none of them a dropped one, and the pool is
\* empty again after the pops.
C13_ClearThenPop ==
    [][/\ ClearStep => Len(pool'.shared) = 0
       /\ \A q \in Pipes :
             Popped(q) /\ Len(pool.shared) = 0 =>
                 /\ \A c \in Range(chain'[q].sources) :
                       c > Len(canvas) /\ c \notin Dropped
                 /\ Len(pool'.shared) = 0
      ]_vars

\* An object holds canvases popped from an empty pool, created after the
\* canvases that a clear had dropped.
C13_Witness ==
    \E q \in Pipes :
        /\ Holding(chain[q]) /\ chain[q].k = 0 /\ chain[q].sources # <<>>
        /\ Dropped # {}
        /\ \A c \in Range(chain[q].sources), d \in Dropped : d < c

\* C14: the release of a result clears every source, keeps its width and
\* height, and puts it in the pool, whose length grows by one for each.
C14_ReleaseClears ==
    [][\A q \in Pipes :
          Released(q) =>
              /\ \A c \in Range(chain[q].sources) :
                    /\ canvas'[c].px = <<>>
                    /\ canvas'[c].w = canvas[c].w
                    /\ canvas'[c].h = canvas[c].h
                    /\ c \in Range(pool'.shared)
              /\ Len(pool'.shared) = Len(pool.shared) + Len(chain[q].sources)
      ]_vars

\* A released canvas in the pool: blank, with the size of the image that
\* was painted on it.
C14_Witness ==
    \E c \in Range(pool.shared) :
        canvas[c].px = <<>> /\ canvas[c].w = 3 /\ canvas[c].h = 2

\* C15: render() on an object resolved to an image list does not fail,
\* and what it resolves to is that list.
C15_RenderSame ==
    \A q \in Pipes :
        (/\ pipes[q].kind = "render"
         /\ Parent(q).status = "fulfilled" /\ Parent(q).value.t = "images")
        => /\ promise[q].status # "rejected"
           /\ promise[q].status = "fulfilled" =>
                 promise[q].value = Parent(q).value

\* The step in which object q calls its draw strategy.
Drawn(q) == chain[q].pc = "then2" /\ chain'[q].pc # "then2"

\* Canvas c carries image img as mapToCanvas painted it.
Painted(c, img, table) ==
    table[c].w = img.w /\ table[c].h = img.h /\ table[c].px = img.px

\* C16: dataUrl calls the draw strategy once, with one canvas for each
\* image the object resolved to, the i-th canvas painted from the i-th
\* image.
C16_DrawOnce ==
    [][\A q \in Pipes :
          /\ chain'[q].draws <= 1
          /\ Drawing(q) /\ promise'[q].status = "fulfilled" =>
                chain'[q].draws = 1
          /\ Drawn(q) =>
                /\ chain'[q].draws = 1
                /\ Len(chain[q].sources) = Len(Parent(q).value.list)
                /\ \A i \in DOMAIN chain[q].sources :
                      Painted(chain[q].sources[i], Parent(q).value.list[i],
                              canvas)
      ]_vars

\* The strategy was called once on two canvases of different sizes.
C16_Witness ==
    \E q \in Pipes :
        /\ chain[q].pc = "then3" /\ chain[q].draws = 1
        /\ Len(chain[q].sources) = 2
        /\ canvas[chain[q].sources[1]].w # canvas[chain[q].sources[2]].w

\* C17: destroy while an object holds canvases leaves the object's
\* canvases, their content and every promise as they were and puts none of
\* them in the pool; the object's later release then gives each of them
\* to the pool, so that a pool that was empty then holds exactly them.
C17_ClearWhileHeld ==
    [][/\ ClearStep =>
             /\ promise' = promise
             /\ \A q \in Pipes :
                   Holding(chain[q]) =>
                       /\ chain'[q].sources = chain[q].sources
                       /\ chain'[q].canvas = chain[q].canvas
                       /\ \A c \in Range(chain[q].sources) :
                             canvas'[c] = canvas[c]
                                /\ c \notin Range(pool'.shared)
       /\ \A q \in Pipes :
             Released(q) /\ chain[q].cleared =>
                 /\ Len(chain[q].sources) = Len(Parent(q).value.list)
                 /\ \A i \in DOMAIN chain[q].sources :
                       /\ canvas[chain[q].sources[i]].w
                             = Parent(q).value.list[i].w
                       /\ canvas[chain[q].sources[i]].h
                             = Parent(q).value.list[i].h
                 /\ Len(pool'.shared)
                       = Len(pool.shared) + Len(chain[q].sources)
                 /\ pool.shared = <<>> => pool'.shared = chain[q].sources
      ]_vars

\* An object completed after a destroy that dropped a pooled canvas while
\* the object held its own: the pool holds what the object released.
C17_Witness ==
    \E q \in Pipes :
        /\ chain[q].cleared /\ promise[q].status = "fulfilled"
        /\ Dropped # {}
        /\ Len(pool.shared) = Len(Parent(q).value.list)

\* The data url the release step of q produces.
Serialized(q) ==
    IF pipes[q].kind = "dataUrl" THEN promise'[q].value ELSE chain'[q].url

\* C18: the data url a release produces is the content the composed canvas
\* had before any source was released, also when the composed canvas is
\* one of the sources and the release clears it.
C18_SerializedFirst ==
    [][\A q \in Pipes :
          Released(q) =>
              /\ Serialized(q) = mapToDataUrl(chain[q].canvas, canvas)
              /\ chain[q].canvas \in Range(chain[q].sources) =>
                    /\ canvas'[chain[q].canvas].px = <<>>
                    /\ Serialized(q).list[1].px = canvas[chain[q].canvas].px
                    /\ Serialized(q).list[1].px # <<>>
      ]_vars

\* A data url with both layers, read from a canvas that is now cleared
\* and back in the pool.
C18_Witness ==
    \E q \in Pipes :
        /\ pipes[q].kind = "dataUrl" /\ pipes[q].draw = "atPosImage"
        /\ promise[q].status = "fulfilled"
        /\ Len(promise[q].value.list[1].px) = 2
        /\ chain[q].canvas \in Range(pool.shared)
        /\ canvas[chain[q].canvas].px = <<>>

\* C19: from the moment an aggregate load is started, the load of every
\* resource of its list has been started, whether or not any of them has
\* completed.
C19_AllStarted ==
    \A p \in Pipes :
        Started(p) =>
            /\ DOMAIN slots[p] = DOMAIN Requested(p)
            /\ \A i \in DOMAIN Requested(p) :
                  /\ slots[p][i].res = Requested(p)[i]
                  /\ slots[p][i].st \in {"loading", "loaded", "failed",
                                         "rejected"}

\* Two loads in flight together, none of the list completed yet.
C19_Witness ==
    \E p \in Pipes :
        /\ Started(p) /\ Len(slots[p]) >= 2
        /\ \A i \in DOMAIN slots[p] :
              slots[p][i].st = "loading" /\ slots[p][i].nth = 0

\* C20: when the src of the Image of a url resource is assigned, the
\* initializer the load was given has already run on that Image.
C20_InitBeforeSrc ==
    \A p \in Pipes :
        Started(p) =>
            \A i \in DOMAIN slots[p] :
                slots[p][i].res.shape = "string" =>
                    /\ slots[p][i].fetch = slots[p][i].init
                    /\ slots[p][i].fetch = GivenInit(p)

\* A fetch in flight that began with the initializer's setting in place.
C20_Witness ==
    \E p \in Pipes, i \in 1..MaxLen :
        /\ i \in DOMAIN slots[p]
        /\ slots[p][i].res.shape = "string"
        /\ slots[p][i].st = "loading"
        /\ slots[p][i].fetch = "crossOrigin"

\* The objects the step constructs.
Constructed == {q \in 1..Len(pipes') : q > Len(pipes)}

\* C21: an object constructed without a promise has, at once, one started
\* load for each of its resources, run with the init of its options; an
\* object constructed with a promise has started none.  The objects made
\* by dataUrl, blob and image never have a load of their own, and the
\* loads of an object are never started again.
C21_LoadAtConstruction ==
    [][/\ \A q \in Constructed :
             IF pipes'[q].kind = "watermark"
             THEN /\ chain'[q].pc = "loading"
                  /\ DOMAIN slots'[q] = DOMAIN pipes'[q].resources
                  /\ \A i \in DOMAIN slots'[q] :
                        /\ slots'[q][i].res = pipes'[q].resources[i]
                        /\ slots'[q][i].st \in {"loading", "loaded", "rejected"}
                        /\ slots'[q][i].res.shape = "string" =>
                              slots'[q][i].init = pipes'[q].opts.init
             ELSE /\ slots'[q] = <<>>
                  /\ chain'[q].pc = "then1"
                  /\ promise'[q] = Pending
       /\ \A q \in Pipes :
             /\ Drawing(q) => slots[q] = <<>> /\ slots'[q] = <<>>
             /\ slots[q] # <<>> =>
                   /\ DOMAIN slots'[q] = DOMAIN slots[q]
                   /\ \A i \in DOMAIN slots[q] :
                         /\ slots'[q][i].res = slots[q][i].res
                         /\ slots'[q][i].init = slots[q][i].init
      ]_vars

\* A dataUrl object has produced its url from the images its parent
\* loaded with the init of the options, with no load of its own.
C21_Witness ==
    \E q \in Pipes :
        /\ Drawing(q) /\ promise[q].status = "fulfilled" /\ slots[q] = <<>>
        /\ pipes[pipes[q].parent].kind = "watermark"
        /\ \E i \in DOMAIN slots[pipes[q].parent] :
              /\ slots[pipes[q].parent][i].res.shape = "string"
              /\ slots[pipes[q].parent][i].init = "crossOrigin"
              /\ slots[pipes[q].parent][i].nth > 0

\* The canvases that are checked out: popped by an object and not released.
CheckedOut == UNION {Range(chain[q].sources) : q \in Pipes}

\* C22: the length of the pool is the number of canvases available in it,
\* no canvas is in the pool twice, and no canvas of the pool is checked
\* out.
C22_PoolConsistent ==
    /\ CanvasPool_length(pool.shared) = Cardinality(Range(pool.shared))
    /\ \A i, j \in DOMAIN pool.shared :
          pool.shared[i] = pool.shared[j] => i = j
    /\ Range(pool.shared) \cap CheckedOut = {}
    /\ Range(pool.shared) \subseteq DOMAIN canvas

\* Canvases are available in the pool while an object holds others, after
\* a release and a pop that took a part of the pool.
C22_Witness ==
    \E q \in Pipes :
        /\ Holding(chain[q]) /\ chain[q].sources # <<>>
        /\ chain[q].k > Len(chain[q].sources)
        /\ CanvasPool_length(pool.shared) >= 1

====
